---- MODULE Spec2Model ----
(***************************************************************************)
(* Model of check_pve2.py (COREX Proxmox VE check plugin for Icinga 2).    *)
(*                                                                         *)
(* One behaviour of the model is one run of the plugin:                    *)
(*   parse_args -> __init__ (get_ticket | token header) -> main: request   *)
(*   -> check_<subcommand> -> check_exitcodes -> process exit.             *)
(*                                                                         *)
(* Conventions                                                             *)
(*  - A Python value that may be None / a non-integer is a sequence of     *)
(*    length <= 1: <<>> is None (or a non-int such as "N/A"), <<v>> is v.  *)
(*  - Percentages that the code rounds to two decimals are carried as      *)
(*    integers in hundredths of a percent (80.0 % is 8000).                *)
(*  - The cpu fraction of the payload is carried in units of 1e-5, memory  *)
(*    and swap byte counts in units of MiB, values rounded to one decimal  *)
(*    of a GB in tenths of a GB.                                           *)
(*  - A printed line is a record; its prefix is the text before " - ".     *)
(*    The free-text fields of the payloads (names, descriptions, models)   *)
(*    are taken not to contain the words OK, WARNING or CRITICAL, so a     *)
(*    substring test for one of these words is decided by the prefix.      *)
(***************************************************************************)
EXTENDS Integers, Sequences, FiniteSets, TLC

VARIABLES
    options,         \* self.options, the parsed command line
    pc,              \* position of the run
    cookies,         \* self.__cookies: <<>> or <<ticket>>
    headers,         \* self.__headers: TRUE iff the Authorization header is set
    requests,        \* the HTTP requests issued so far, in order
    request_output,  \* the decoded payload returned by the data GET
    idx,             \* position of the for loop of the running check_*
    result_list,     \* self.result_list
    stdout,          \* the lines printed on standard output, in order
    exitcode,        \* <<>> while running, <<n>> once the process has exited
    exit_by          \* what ended the process

vars == <<options, pc, cookies, headers, requests, request_output, idx,
          result_list, stdout, exitcode, exit_by>>

(***************************************************************************)
(* Bounds of the model.                                                    *)
(***************************************************************************)
MaxItems == 2

None == <<>>

ThresholdValues == {60, 80}

OptThreshold == {None} \cup { <<t>> : t \in ThresholdValues }

Names == {"local", "backup"}

Tickets == {"PVE:t1", "PVE:t2"}

Subcommands == {"ceph", "ceph_io", "cluster", "cpu", "disks_health", "memory",
                "pveversion", "services", "storage", "swap"}

(***************************************************************************)
(* Sequences over S of length at most n.                                   *)
(***************************************************************************)
SeqUpTo(S, n) == UNION { [1..k -> S] : k \in 0..n }

(***************************************************************************)
(* Python's round() of a value that is exact in binary floating point      *)
(* (an integer divided by a power of two, lines 259-260 and 359-360):      *)
(* nearest, ties to even, of the rational n/d (n >= 0, d > 0).             *)
(***************************************************************************)
Round(n, d) ==
    LET q == n \div d
        r == n % d
    IN  IF 2 * r < d THEN q
        ELSE IF 2 * r > d THEN q + 1
        ELSE IF q % 2 = 0 THEN q ELSE q + 1

(***************************************************************************)
(* Binary floating point.  The percentages of check_cpu, check_memory and  *)
(* check_storage are round(x * 100, 2) of a float x that is a quotient;    *)
(* round() rounds the exact value of the double it is given, so when the   *)
(* quotient of the rationals sits half way between two hundredths the      *)
(* result is decided by the rounding errors of the division and of the     *)
(* multiplication.  A double is kept as [m, e], the value m * 2^e, m a     *)
(* natural number of at most 53 significant bits written as the sequence   *)
(* of its binary digits, least significant first.                          *)
(***************************************************************************)
RECURSIVE Bits(_)
Bits(n) == IF n = 0 THEN <<>> ELSE <<n % 2>> \o Bits(n \div 2)

Bit(a, k) == IF k <= Len(a) THEN a[k] ELSE 0

\* The number of significant binary digits.
RECURSIVE Width(_)
Width(a) ==
    IF a = <<>> THEN 0
    ELSE IF a[Len(a)] = 1 THEN Len(a)
    ELSE Width(SubSeq(a, 1, Len(a) - 1))

\* -1, 0 or 1 as a <, =, > b, looking at the digits from k downwards.
RECURSIVE CompareFrom(_, _, _)
CompareFrom(a, b, k) ==
    IF k = 0 THEN 0
    ELSE IF Bit(a, k) > Bit(b, k) THEN 1
    ELSE IF Bit(a, k) < Bit(b, k) THEN -1
    ELSE CompareFrom(a, b, k - 1)

Compare(a, b) == CompareFrom(a, b, IF Len(a) > Len(b) THEN Len(a) ELSE Len(b))

\* a * k + carry for a small k.
RECURSIVE Times(_, _, _)
Times(a, k, carry) ==
    IF a = <<>> THEN Bits(carry)
    ELSE LET v == a[1] * k + carry
         IN  <<v % 2>> \o Times(Tail(a), k, v \div 2)

\* a - b - borrow, for a >= b + borrow.
RECURSIVE Minus(_, _, _)
Minus(a, b, borrow) ==
    IF a = <<>> THEN <<>>
    ELSE LET v == a[1] - Bit(b, 1) - borrow
         IN  <<(v + 2) % 2>>
             \o Minus(Tail(a), IF b = <<>> THEN <<>> ELSE Tail(b),
                      IF v < 0 THEN 1 ELSE 0)

\* a * 2^k.
Shift(a, k) == [i \in 1..k |-> 0] \o a

\* Long division: the digits hi..lo of num brought down, highest first, onto
\* the remainder r; q is the quotient, its digits in the order they come
\* out (most significant first), r the remainder that is left.
RECURSIVE Divide(_, _, _, _, _)
Divide(num, hi, lo, d, r) ==
    IF hi < lo THEN [q |-> <<>>, r |-> r]
    ELSE IF hi = lo
    THEN LET down == <<num[hi]>> \o r
             left == IF Compare(down, d) >= 0 THEN Minus(down, d, 0) ELSE down
         IN  [q |-> <<IF Compare(down, d) >= 0 THEN 1 ELSE 0>>,
              r |-> SubSeq(left, 1, Width(left))]
    ELSE LET mid == (hi + lo) \div 2
             upper == Divide(num, hi, mid + 1, d, r)
             lower == Divide(num, mid, lo, d, upper.r)
         IN  [q |-> upper.q \o lower.q, r |-> lower.r]

\* The double nearest to m * 2^e, ties to even; sticky says that the value
\* to round lies above m * 2^e by less than 2^e.
fl(m, e, sticky) ==
    LET w == Width(m)
        k == w - 53
    IN  IF k <= 0 THEN [m |-> SubSeq(m, 1, w), e |-> e]
        ELSE LET kept == SubSeq(m, k + 1, w)
                 below == sticky \/ \E i \in 1..(k - 1) : m[i] = 1
                 up == m[k] = 1 /\ (below \/ kept[1] = 1)
             IN  [m |-> IF up THEN Times(kept, 1, 1) ELSE kept, e |-> e + k]

\* int -> float, exact for the integers of the model.
FromInt(n) == [m |-> Bits(n), e |-> 0]

\* x / y of two doubles, y # 0: the quotient to 56 digits or more, rounded.
Quotient(x, y) ==
    IF Width(x.m) = 0 THEN FromInt(0)
    ELSE LET need == 56 + Width(y.m) - Width(x.m)
             s == IF need > 0 THEN need ELSE 0
             num == Shift(x.m, s)
             division == Divide(num, Len(num), 1, y.m, <<>>)
             q == [i \in 1..Len(division.q) |->
                       division.q[Len(division.q) + 1 - i]]
         IN  fl(q, x.e - y.e - s, Width(division.r) > 0)

\* The next digits of the binary expansion of r / d (0 <= r < d), count of
\* them, most significant first, and the remainder that is left.
RECURSIVE Expand(_, _, _)
Expand(r, d, count) ==
    IF count = 0 THEN [q |-> <<>>, r |-> r]
    ELSE IF count = 1
    THEN IF 2 * r >= d THEN [q |-> <<1>>, r |-> 2 * r - d]
         ELSE [q |-> <<0>>, r |-> 2 * r]
    ELSE LET upper == Expand(r, d, count \div 2)
             lower == Expand(upper.r, d, count - count \div 2)
         IN  [q |-> upper.q \o lower.q, r |-> lower.r]

\* n / d of two integers, d > 0: the double nearest to the rational, which
\* is also float() of a decimal n / 10^k of the JSON body.
QuotientInt(n, d) ==
    IF n = 0 THEN FromInt(0)
    ELSE LET need == 56 + Width(Bits(d)) - Width(Bits(n))
             s == IF need > 0 THEN need ELSE 0
             expansion == Expand(n % d, d, s)
             q == [i \in 1..s |-> expansion.q[s + 1 - i]] \o Bits(n \div d)
         IN  fl(q, 0 - s, expansion.r > 0)

\* x * k of a double and a small integer.
Product(x, k) == fl(Times(x.m, k, 0), x.e, FALSE)

\* -1, 0 or 1 as the double x is below, on or above the rational n / d.
CompareRational(x, n, d) ==
    LET left == Times(x.m, d, 0)
        right == Bits(n)
    IN  IF x.e >= 0 THEN Compare(Shift(left, x.e), right)
        ELSE Compare(left, Shift(right, 0 - x.e))

\* round(x, 2) in hundredths, for the double x computed in place of the
\* rational n / d (n >= 0, d > 0, both below 10^7).  Off a tie of the
\* rational the errors of x (a few units in the 16th digit) are far smaller
\* than its distance to the nearest tie (at least 1 / (200 * d)), and the
\* double rounds as the rational does; on a tie the double itself decides.
round2(x, n, d) ==
    LET below == (n * 100) \div d
    IN  IF 2 * ((n * 100) % d) # d THEN Round(n * 100, d)
        ELSE LET side == CompareRational(x, 2 * below + 1, 200)
             IN  IF side > 0 THEN below + 1
                 ELSE IF side < 0 THEN below
                 ELSE IF below % 2 = 0 THEN below ELSE below + 1

(***************************************************************************)
(* CheckState                                                              *)
(***************************************************************************)
StateValue(state) ==
    CASE state = "OK" -> 0
      [] state = "WARNING" -> 1
      [] state = "CRITICAL" -> 2
      [] state = "UNKNOWN" -> 3

Line(prefix, msg, subject, detail, value) ==
    [prefix |-> prefix, msg |-> msg, subject |-> subject,
     detail |-> detail, value |-> value]

\* `pattern in x` / re.search(pattern, x) for the severity words.
HasText(x, pattern) ==
    CASE pattern \in {"CRITICAL", "CRITICAL -"} -> x.prefix = "CRITICAL"
      [] pattern \in {"WARNING", "WARNING -"} -> x.prefix = "WARNING"
      [] pattern = "OK -" -> x.prefix = "OK"

AnyHas(list, pattern) == \E k \in 1..Len(list) : HasText(list[k], pattern)

\* The distinct elements of a list in order of first occurrence.
RECURSIVE ToSet(_)
ToSet(list) ==
    IF list = <<>> THEN <<>>
    ELSE LET rest == ToSet(SubSeq(list, 1, Len(list) - 1))
             last == list[Len(list)]
         IN  IF \E k \in 1..Len(rest) : rest[k] = last THEN rest
             ELSE Append(rest, last)


(***************************************************************************)
(* Command line.  type=int thresholds default to None; the ceph limits     *)
(* keep their defaults.                                                    *)
(***************************************************************************)
CephIoWarningDefault == 10000

CephByteWarningDefault == 200

Options ==
    { o \in [subcommand : Subcommands,
             threshold_warning : OptThreshold,
             threshold_critical : OptThreshold,
             include_disks : SUBSET Names,
             ignore_disks : SUBSET Names,
             api_password : BOOLEAN,
             api_token : BOOLEAN,
             ceph_io_warning : {CephIoWarningDefault},
             ceph_byte_warning : {CephByteWarningDefault}] :
        /\ o.subcommand # "storage" => (o.include_disks = {} /\ o.ignore_disks = {})
        /\ ~(o.api_password /\ o.api_token) }

NeedsThresholds(subcommand) ==
    subcommand \in {"cpu", "disks_health", "memory", "storage", "swap"}

\* check_thresholds_scale: "True", "False" or "None" (the fall-through return).
check_thresholds_scale_lax(o, scale) ==
    IF o.subcommand \in {"cpu", "memory", "storage", "swap"} /\ scale = "increase"
    THEN IF o.threshold_warning[1] <= o.threshold_critical[1] THEN "True" ELSE "False"
    ELSE IF o.subcommand = "disks_health" /\ scale = "decrease"
    THEN IF o.threshold_critical[1] <= o.threshold_warning[1] THEN "True" ELSE "False"
    ELSE "None"

check_thresholds_scale(o, scale) ==
    IF o.subcommand \in {"cpu", "memory", "storage", "swap"} /\ scale = "increase"
    THEN IF o.threshold_warning[1] < o.threshold_critical[1] THEN "True" ELSE "False"
    ELSE IF o.subcommand = "disks_health" /\ scale = "decrease"
    THEN IF o.threshold_critical[1] < o.threshold_warning[1] THEN "True" ELSE "False"
    ELSE "None"

\* The first parser.error of parse_args that fires, "" if none does.
ParserError(o) ==
    IF NeedsThresholds(o.subcommand)
       /\ (o.threshold_warning = None \/ o.threshold_critical = None)
    THEN "--warning and --critical arguments are required"
    ELSE IF check_thresholds_scale(o, "increase") = "False"
    THEN "--warning threshold must be lower then --critical threshold"
    ELSE IF check_thresholds_scale(o, "decrease") = "False"
    THEN "--warning threshold must be higher then --critical threshold"
    ELSE ""

\* set(self.result_list) as check_exitcodes iterates it: the distinct lines
\* in an order the hash seed of the interpreter decides, so any order.
set(list) ==
    LET distinct == ToSet(list)
    IN  { order \in [1..Len(distinct) -> { distinct[k] : k \in 1..Len(distinct) }] :
            \A j, k \in 1..Len(distinct) : j # k => order[j] # order[k] }

(***************************************************************************)
(* Process exits.                                                          *)
(***************************************************************************)
\* CheckPVE.output: print one line, sys.exit(state.value).
output(state, line) ==
    /\ stdout' = Append(stdout, [line EXCEPT !.prefix = state])
    /\ exitcode' = <<StateValue(state)>>
    /\ exit_by' = "output"
    /\ pc' = "exit"

Message(msg) == Line("", msg, "", "", 0)

\* An exception no handler catches: traceback on stderr, exit status 1.
Uncaught(exception) ==
    /\ stdout' = stdout
    /\ exitcode' = <<1>>
    /\ exit_by' = exception
    /\ pc' = "exit"

\* Starts with a finding left in the list.
Init_stale ==
    /\ options \in Options
    /\ pc = "parse_args"
    /\ cookies = <<>>
    /\ headers = FALSE
    /\ requests = <<>>
    /\ request_output = <<>>
    /\ idx = 1
    /\ result_list \in {<<>>, <<Line("WARNING", "is", "cron", "dead", 0)>>}
    /\ stdout = <<>>
    /\ exitcode = <<>>
    /\ exit_by = ""

Init ==
    /\ options \in Options
    /\ pc = "parse_args"
    /\ cookies = <<>>
    /\ headers = FALSE
    /\ requests = <<>>
    /\ request_output = <<>>
    /\ idx = 1
    /\ result_list = <<>>
    /\ stdout = <<>>
    /\ exitcode = <<>>
    /\ exit_by = ""

\* parse_args, lines 137-146: parser.error prints usage on stderr, exits 2.
parse_args ==
    /\ pc = "parse_args"
    /\ IF ParserError(options) # ""
       THEN /\ pc' = "exit"
            /\ exitcode' = <<2>>
            /\ exit_by' = "parser.error"
       ELSE /\ pc' = "__init__"
            /\ UNCHANGED <<exitcode, exit_by>>
    /\ UNCHANGED <<options, cookies, headers, requests, request_output, idx,
                   result_list, stdout>>


(***************************************************************************)
(* Transport.  What one requests.post / requests.get call can come to.     *)
(* The POST is made with timeout=5, the GET without a timeout; either can  *)
(* raise ReadTimeout: the POST when the server does not answer in time,    *)
(* both when the read on the socket times out (ETIMEDOUT).                 *)
(***************************************************************************)
Failures ==
    {"ConnectTimeout", "SSLError", "ConnectionError", "ReadTimeout",
     "http401", "http403", "http500", "undecodable body", "no data field"}

Outcomes(method) ==
    {"ok"} \cup Failures
    \cup (IF method = "post" THEN {"no ticket field"} ELSE {})

\* get_url: the path of the endpoint.
get_url(apiurl) ==
    CASE apiurl \in {"cpu", "memory", "pveversion", "swap"} -> "nodes/{node}/status"
      [] apiurl = "disks_health" -> "nodes/{node}/disks/list"
      [] apiurl = "ceph" -> "cluster/ceph/status"
      [] apiurl = "ceph_io" -> "nodes/{node}/ceph/status"
      [] apiurl = "cluster" -> "cluster/status"
      [] apiurl = "storage" -> "nodes/{node}/storage"
      [] apiurl = "services" -> "nodes/{node}/services"
      [] OTHER -> apiurl

\* CheckPVE.request after the call was issued: how the outcome is handled.
\* "return": response.json()['data'] is returned; "unknown": output(UNKNOWN);
\* "raise": an exception leaves request().
request(outcome) ==
    CASE outcome = "ConnectTimeout" -> [kind |-> "unknown", text |-> "Connection timeout"]
      [] outcome = "SSLError" -> [kind |-> "unknown", text |-> "Certificate validation failed"]
      [] outcome = "ConnectionError" -> [kind |-> "unknown", text |-> "Failed to resolve hostname"]
      [] outcome = "ReadTimeout" -> [kind |-> "raise", text |-> "ReadTimeout"]
      [] outcome = "http401" -> [kind |-> "unknown", text |-> "invalid username or password"]
      [] outcome = "http403" -> [kind |-> "unknown", text |-> "Access denied"]
      [] outcome = "http500" -> [kind |-> "unknown", text |-> "HTTP error code was 500"]
      [] outcome = "undecodable body" -> [kind |-> "raise", text |-> "JSONDecodeError"]
      [] outcome = "no data field" -> [kind |-> "raise", text |-> "KeyError"]
      [] OTHER -> [kind |-> "return", text |-> ""]

\* The way a failed request ends the process.
RequestEnds(r) ==
    IF r.kind = "unknown" THEN output("UNKNOWN", Message(r.text))
    ELSE Uncaught(r.text)

\* __init__, lines 72-73: password mode, get_ticket issues the POST.
\* The record of the ticket POST in the log: requests.post(url, verify,
\* data, timeout) sends neither cookies nor headers; ticket is the one the
\* response carries, <<>> if the call failed.
post_request(outcome, ticket) ==
    [method |-> "post", url |-> get_url("access/ticket"),
     cookie |-> <<>>, authorization |-> FALSE, outcome |-> outcome,
     ticket |-> IF outcome = "ok" THEN <<ticket>> ELSE <<>>]

\* Sends no cookie.
get_request_bare(subcommand, cookie, authorization, outcome) ==
    [method |-> "get", url |-> get_url(subcommand),
     cookie |-> <<>>, authorization |-> authorization, outcome |-> outcome,
     ticket |-> <<>>]

\* The record of the data GET in the log: requests.get(url, verify,
\* cookies=self.__cookies, headers=self.__headers, params).
get_request(subcommand, cookie, authorization, outcome) ==
    [method |-> "get", url |-> get_url(subcommand),
     cookie |-> cookie, authorization |-> authorization, outcome |-> outcome,
     ticket |-> <<>>]

get_ticket ==
    /\ pc = "__init__"
    /\ options.api_password
    /\ \E outcome \in Outcomes("post"), ticket \in Tickets :
         LET r == request(outcome) IN
         /\ requests' = Append(requests, post_request(outcome, ticket))
         /\ IF r.kind = "return"
            THEN IF outcome = "no ticket field"
                 THEN Uncaught("KeyError") /\ UNCHANGED cookies
                 ELSE /\ cookies' = <<ticket>>
                      /\ pc' = "main"
                      /\ UNCHANGED <<stdout, exitcode, exit_by>>
            ELSE RequestEnds(r) /\ UNCHANGED cookies
    /\ UNCHANGED <<options, headers, request_output, idx, result_list>>

\* __init__, lines 74-75: token mode, the Authorization header is set.
set_token ==
    /\ pc = "__init__"
    /\ ~options.api_password
    /\ headers' = options.api_token
    /\ pc' = "main"
    /\ UNCHANGED <<options, cookies, requests, request_output, idx,
                   result_list, stdout, exitcode, exit_by>>


(***************************************************************************)
(* Payloads: response.json()['data'] of the data GET, per subcommand.      *)
(***************************************************************************)
\* cpu fraction in units of 1e-5 (0.79996 is 79996).
CpuValues == {0, 59994, 59995, 59996, 60000, 79994, 79996, 80000, 90000}

\* memory / swap byte counts in MiB.
MemUsed == {0, 307, 512, 614, 819, 6144, 8187, 8192, 10240}

MemTotal == {0, 1024, 3277, 10240}

NodeNames == {"pve1", "pve2", "pve3"}

CephOps == {0, 9999, 10000}

\* 209710000 bytes are 199.995 MB, 209715200 bytes are 200 MB.
CephBytes == {0, 209710000, 209715200}

DevPaths == <<"/dev/sda", "/dev/sdb", "/dev/sdc", "/dev/sdd">>

DiskHealth == {"PASSED", "UNKNOWN", "FAILED"}

\* <<>> is a wearout that is not an int ("N/A").
DiskWearout == {<<>>, <<90>>, <<80>>, <<60>>, <<50>>}

DiskKinds == [health : DiskHealth, wearout : DiskWearout]

ServiceKinds ==
    [name : {"pveproxy", "syslog"},
     state : {"running", "dead"},
     active_state : {"active", "inactive"},
     unit_state : {"enabled", "not-found"}]

\* <<used, total>> in bytes.
StorageUsage == {<<50000, 100000>>, <<59995, 100000>>, <<60000, 100000>>,
                 <<79996, 100000>>,
                 <<80000, 100000>>, <<1, 0>>}

StorageKinds ==
    { s \in [storage : Names, enabled : {0, 1}, active : {0, 1},
             usage : StorageUsage] :
        /\ s.active = 0 => s.usage \in {<<50000, 100000>>, <<80000, 100000>>}
        /\ s.enabled = 0 => s.usage = <<80000, 100000>> }

\* The node entries of a cluster/status payload; the nodes of a cluster
\* carry distinct names.
ClusterNodes ==
    { nodes \in SeqUpTo([name : NodeNames, online : {0, 1}], MaxItems) :
        \A j, k \in 1..Len(nodes) : j # k => nodes[j].name # nodes[k].name }

Payloads(subcommand) ==
    CASE subcommand = "cpu" -> [cpu : CpuValues]
      [] subcommand \in {"memory", "swap"} -> [used : MemUsed, total : MemTotal]
      [] subcommand = "pveversion" -> {[pveversion |-> <<"pve-manager", "8.2.2", "9355359c">>]}
      [] subcommand = "ceph" -> [status : {"HEALTH_OK", "HEALTH_WARN"}]
      [] subcommand = "ceph_io" ->
            [read_bytes_sec : CephBytes, write_bytes_sec : CephBytes,
             read_op_per_sec : CephOps, write_op_per_sec : CephOps]
      [] subcommand = "cluster" ->
            [name : {"cl"}, quorate : {<<>>, <<0>>, <<1>>},
             nodes : ClusterNodes]
      [] subcommand = "disks_health" ->
            UNION { { [k \in 1..n |-> [devpath |-> DevPaths[k],
                                       health |-> f[k].health,
                                       wearout |-> f[k].wearout]] :
                      f \in [1..n -> DiskKinds] } : n \in 0..MaxItems }
      [] subcommand = "services" -> SeqUpTo(ServiceKinds, MaxItems)
      [] subcommand = "storage" -> SeqUpTo(StorageKinds, MaxItems)

\* main, lines 151-152: the data GET.
main ==
    /\ pc = "main"
    /\ \E outcome \in Outcomes("get") :
         LET r == request(outcome) IN
         /\ requests' = Append(requests,
                get_request(options.subcommand, cookies, headers, outcome))
         /\ IF r.kind = "return"
            THEN /\ request_output' \in Payloads(options.subcommand)
                 /\ pc' = "check"
                 /\ UNCHANGED <<stdout, exitcode, exit_by>>
            ELSE RequestEnds(r) /\ UNCHANGED request_output
    /\ UNCHANGED <<options, cookies, headers, idx, result_list>>

(***************************************************************************)
(* Evaluators that print one line and exit.                                *)
(***************************************************************************)
Warning == options.threshold_warning[1]

Critical == options.threshold_critical[1]

\* The if / elif / elif of check_cpu and check_memory on a percentage in
\* hundredths; "" when no branch is taken.
usage_state_strict(percent, warning, critical) ==
    IF critical * 100 < percent THEN "CRITICAL"
    ELSE IF warning * 100 <= percent /\ percent <= critical * 100 THEN "WARNING"
    ELSE IF percent < warning * 100 THEN "OK"
    ELSE ""

usage_state(percent, warning, critical) ==
    IF critical * 100 <= percent THEN "CRITICAL"
    ELSE IF warning * 100 <= percent /\ percent <= critical * 100 THEN "WARNING"
    ELSE IF percent < warning * 100 THEN "OK"
    ELSE ""

\* A check_* that returns without exiting: main goes on to check_exitcodes.
Returns ==
    /\ pc' = "check_exitcodes"
    /\ UNCHANGED <<stdout, exitcode, exit_by>>

\* round(cpu * 100, 2) in hundredths, cpu given in units of 10^-5: the
\* float is the double nearest to the decimal of the JSON body.
cpu_usage(cpu) ==
    round2(Product(QuotientInt(cpu, 100000), 100), cpu, 1000)

check_cpu ==
    /\ pc = "check" /\ options.subcommand = "cpu"
    /\ LET usage == cpu_usage(request_output.cpu)
           state == usage_state(usage, Warning, Critical)
       IN  IF state # ""
           THEN output(state, Line("", "CPU usage is", "cpu", "", usage))
           ELSE Returns
    /\ UNCHANGED <<options, cookies, headers, requests, request_output, idx,
                   result_list>>

\* round(bytes / 1024**3, 1) in tenths of a GB, bytes given in MiB.
GB(mib) == Round(mib * 10, 1024)

\* memory_used_percent in hundredths.
memory_used_percent(used, total) ==
    LET memory_used == QuotientInt(GB(used), 10)
        memory_total == QuotientInt(GB(total), 10)
    IN  IF GB(total) = 0 THEN GB(used) * 1000
        ELSE round2(Product(Quotient(memory_used, memory_total), 100),
                    GB(used) * 100, GB(total))

\* check_memory, also reached through check_swap.
check_memory ==
    /\ pc = "check" /\ options.subcommand \in {"memory", "swap"}
    /\ LET percent == memory_used_percent(request_output.used, request_output.total)
           state == usage_state(percent, Warning, Critical)
       IN  IF state # ""
           THEN output(state, Line("", "usage is", options.subcommand, "", percent))
           ELSE Returns
    /\ UNCHANGED <<options, cookies, headers, requests, request_output, idx,
                   result_list>>

check_pveversion ==
    /\ pc = "check" /\ options.subcommand = "pveversion"
    /\ output("OK", Line("", request_output.pveversion[1], request_output.pveversion[2], "", 0))
    /\ UNCHANGED <<options, cookies, headers, requests, request_output, idx,
                   result_list>>

check_ceph ==
    /\ pc = "check" /\ options.subcommand = "ceph"
    /\ IF request_output.status # "HEALTH_OK"
       THEN output("WARNING", Message("CEPH cluster is unhealthy!"))
       ELSE output("OK", Message("CEPH cluster is healthy."))
    /\ UNCHANGED <<options, cookies, headers, requests, request_output, idx,
                   result_list>>


\* node_details_dict of check_cluster: the names in order of first insertion;
\* the entry of a name is the one of the last node carrying it.
NodeOffline(nodes, name) ==
    LET last == CHOOSE k \in 1..Len(nodes) :
                    /\ nodes[k].name = name
                    /\ \A j \in (k + 1)..Len(nodes) : nodes[j].name # name
    IN  nodes[last].online # 1

\* Stops at the first offline node.
offline_node_list_first(nodes) ==
    LET keys == ToSet([k \in 1..Len(nodes) |-> nodes[k].name])
        Offline(name) == NodeOffline(nodes, name)
        all == SelectSeq(keys, Offline)
    IN  IF all = <<>> THEN <<>> ELSE <<all[1]>>

offline_node_list(nodes) ==
    LET keys == ToSet([k \in 1..Len(nodes) |-> nodes[k].name])
        Offline(name) == NodeOffline(nodes, name)
    IN  SelectSeq(keys, Offline)

check_cluster ==
    /\ pc = "check" /\ options.subcommand = "cluster"
    /\ LET quorate == request_output.quorate
           offline == offline_node_list(request_output.nodes)
       IN  IF quorate = None
           THEN output("WARNING", Message("There is no cluster configuration!"))
           ELSE IF quorate[1] = 1
           THEN IF Len(offline) > 0
                THEN output("WARNING",
                            Line("", "cluster are working, but there is offline nodes",
                                 request_output.name, offline, 0))
                ELSE output("OK", Line("", "cluster is working well.",
                                       request_output.name, <<>>, 0))
           ELSE output("CRITICAL", Line("", "There is no quorum in cluster!",
                                        request_output.name, <<>>, 0))
    /\ UNCHANGED <<options, cookies, headers, requests, request_output, idx,
                   result_list>>

(***************************************************************************)
(* Evaluators that build self.result_list.                                 *)
(***************************************************************************)
\* round(int(bytes) / 1048576, 2) in hundredths of a MB.
MB(bytes) == (bytes \div 1048576) * 100 + Round((bytes % 1048576) * 100, 1048576)

ceph_io_findings(perfdata, o) ==
    LET ops == IF o.ceph_io_warning <= perfdata.read_op_per_sec
                  \/ o.ceph_io_warning <= perfdata.write_op_per_sec
               THEN "WARNING" ELSE "OK"
        bytes == IF o.ceph_byte_warning * 100 <= MB(perfdata.read_bytes_sec)
                    \/ o.ceph_byte_warning * 100 <= MB(perfdata.write_bytes_sec)
                 THEN "WARNING" ELSE "OK"
    IN  << Line(ops, "CEPH IO operation usage is", "ops",
                "", perfdata.read_op_per_sec + perfdata.write_op_per_sec),
           Line(bytes, "CEPH IO byte usage is", "bytes",
                "", MB(perfdata.read_bytes_sec) + MB(perfdata.write_bytes_sec)) >>

check_ceph_io ==
    /\ pc = "check" /\ options.subcommand = "ceph_io"
    /\ result_list' = result_list \o ceph_io_findings(request_output, options)
    /\ Returns
    /\ UNCHANGED <<options, cookies, headers, requests, request_output, idx>>

IsWarningLine(x) == HasText(x, "WARNING -")

IsWarningAndCriticalLine(x) == HasText(x, "WARNING -") /\ HasText(x, "CRITICAL -")

\* The grade check_disks_health gives one disk: lines 340-348.
disk_state(disk, warning, critical) ==
    IF disk.health # "OK" /\ disk.health # "PASSED" /\ disk.health # "UNKNOWN"
    THEN "WARNING"
    ELSE IF disk.wearout # <<>> /\ disk.wearout[1] <= warning
            /\ disk.wearout[1] >= critical
    THEN "WARNING"
    ELSE IF disk.wearout # <<>> /\ disk.wearout[1] <= critical
    THEN "CRITICAL"
    ELSE "OK"

DiskLine(disk, state) ==
    IF state = "OK" THEN Line("OK", "All disks are healthy.", "", "", 0)
    ELSE IF disk.health # "OK" /\ disk.health # "PASSED" /\ disk.health # "UNKNOWN"
    THEN Line(state, "is failed", disk.devpath, disk.health, 0)
    ELSE Line(state, "has low wearout", disk.devpath, "", disk.wearout[1])

\* One iteration of the loop of check_disks_health: lines 333-351.
disks_health_item(list, disk, warning, critical) ==
    LET state == disk_state(disk, warning, critical)
        appended ==
            IF state # "OK" THEN Append(list, DiskLine(disk, state))
            ELSE IF ~AnyHas(list, "WARNING") \/ ~AnyHas(list, "CRITICAL")
            THEN Append(list, DiskLine(disk, "OK"))
            ELSE list
    IN  IF AnyHas(appended, "WARNING")
        THEN SelectSeq(appended, IsWarningAndCriticalLine)
        ELSE appended

\* The loop of a list-building check: one iteration per step; the step of
\* the last iteration (or of an empty payload) also does what follows the
\* loop and returns to main.  stepped is the list after the iteration of
\* idx, finished the same with what follows the loop applied, empty the
\* list when the loop body never runs.
LoopStep(stepped, finished, empty) ==
    /\ pc = "check"
    /\ IF Len(request_output) = 0
       THEN /\ result_list' = empty
            /\ idx' = idx
            /\ Returns
       ELSE /\ idx <= Len(request_output)
            /\ idx' = idx + 1
            /\ IF idx = Len(request_output)
               THEN /\ result_list' = finished
                    /\ Returns
               ELSE /\ result_list' = stepped
                    /\ UNCHANGED <<pc, stdout, exitcode, exit_by>>
    /\ UNCHANGED <<options, cookies, headers, requests, request_output>>

check_disks_health ==
    /\ options.subcommand = "disks_health"
    /\ pc = "check"
    /\ LET stepped == IF idx \in 1..Len(request_output)
                      THEN disks_health_item(result_list, request_output[idx],
                                             Warning, Critical)
                      ELSE result_list
       IN  \E finished \in set(stepped) :
               LoopStep(stepped, finished, ToSet(result_list))


\* The grade check_services gives one service: line 397.
service_state_and(element) ==
    IF element.state # "running" /\ element.active_state # "active"
       /\ element.unit_state # "not-found"
    THEN "WARNING" ELSE "OK"

service_state(element) ==
    IF (element.state # "running" \/ element.active_state # "active")
       /\ element.unit_state # "not-found"
    THEN "WARNING" ELSE "OK"

ServiceLine(element, state) ==
    IF state = "WARNING" THEN Line("WARNING", "is", element.name, element.state, 0)
    ELSE Line("OK", "All services are running.", "", "", 0)

\* Appends the line of every service and filters nothing.
services_item_unfiltered(list, element) ==
    Append(list, ServiceLine(element, service_state(element)))

\* One iteration of the loop of check_services: lines 390-404.
services_item(list, element) ==
    LET state == service_state(element)
        appended ==
            IF state = "WARNING" THEN Append(list, ServiceLine(element, state))
            ELSE IF ~AnyHas(list, "WARNING")
            THEN Append(list, ServiceLine(element, "OK"))
            ELSE list
    IN  IF AnyHas(appended, "WARNING")
        THEN SelectSeq(appended, IsWarningLine)
        ELSE appended

check_services ==
    /\ options.subcommand = "services"
    /\ pc = "check"
    /\ LET stepped == IF idx \in 1..Len(request_output)
                      THEN services_item(result_list, request_output[idx])
                      ELSE result_list
       IN  \E finished \in set(stepped) :
               LoopStep(stepped, finished, ToSet(result_list))

\* storage_used_percent in hundredths, lines 435-438, of the usages the
\* payloads are made of: the same computation, done once for each of them.
storage_used_percent_of ==
    [usage \in StorageUsage |->
        IF usage[2] = 0 THEN usage[1] * 10000
        ELSE round2(Product(QuotientInt(usage[1], usage[2]), 100),
                    usage[1] * 100, usage[2])]

\* storage_used_percent in hundredths: lines 435-438.
storage_used_percent_exact(used, total) ==
    IF total = 0 THEN used * 10000
    ELSE (used * 10000) \div total

storage_used_percent(used, total) ==
    IF <<used, total>> \in DOMAIN storage_used_percent_of
    THEN storage_used_percent_of[<<used, total>>]
    ELSE IF total = 0 THEN used * 10000
    ELSE round2(Product(QuotientInt(used, total), 100), used * 100, total)

\* The filter of check_storage: lines 446-452.
storage_selected_both(name, include_disks, ignore_disks) ==
    IF Cardinality(include_disks) > 0
    THEN name \in include_disks /\ name \notin ignore_disks
    ELSE name \notin ignore_disks

storage_selected(name, include_disks, ignore_disks) ==
    IF Cardinality(include_disks) > 0
    THEN name \in include_disks
    ELSE name \notin ignore_disks

\* check_storage_inside: the finding of one selected storage, <<>> if none.
check_storage_inside(storage, warning, critical) ==
    LET percent == storage_used_percent(storage.usage[1], storage.usage[2])
        state == usage_state(percent, warning, critical)
    IN  IF storage.enabled = 1
        THEN IF storage.active # 1
             THEN << Line("WARNING", "disk is not active!", storage.storage, "", 0) >>
             ELSE IF state # ""
             THEN << Line(state, "disk usage is", storage.storage, "", percent) >>
             ELSE <<>>
        ELSE <<>>

\* One iteration of the loop of check_storage: lines 428-452.
storage_item(list, storage, o) ==
    IF storage_selected(storage.storage, o.include_disks, o.ignore_disks)
    THEN list \o check_storage_inside(storage, o.threshold_warning[1],
                                      o.threshold_critical[1])
    ELSE list

check_storage ==
    /\ options.subcommand = "storage"
    /\ LET stepped == storage_item(result_list, request_output[idx], options)
       IN  LoopStep(stepped, stepped, result_list)

\* The whole loop of check_storage over a payload, from an empty list.
RECURSIVE storage_run(_, _)
storage_run(payload, o) ==
    IF payload = <<>> THEN <<>>
    ELSE storage_item(storage_run(SubSeq(payload, 1, Len(payload) - 1), o),
                      payload[Len(payload)], o)

(***************************************************************************)
(* Aggregator.                                                             *)
(***************************************************************************)
IsCriticalText(x) == HasText(x, "CRITICAL")

IsWarningText(x) == HasText(x, "WARNING")

IsOkText(x) == HasText(x, "OK -")

\* The lines check_exitcodes prints, in order: lines 463-468.
printed(list) ==
    (IF AnyHas(list, "CRITICAL") THEN SelectSeq(list, IsCriticalText) ELSE <<>>)
    \o (IF AnyHas(list, "WARNING") THEN SelectSeq(list, IsWarningText) ELSE <<>>)
    \o (IF AnyHas(list, "OK -") THEN SelectSeq(list, IsOkText) ELSE <<>>)

\* The status check_exitcodes exits with: lines 471-476.
exit_status(list) ==
    IF AnyHas(list, "CRITICAL") THEN 2
    ELSE IF AnyHas(list, "WARNING") THEN 1
    ELSE 0

check_exitcodes ==
    /\ pc = "check_exitcodes"
    /\ stdout' = stdout \o printed(result_list)
    /\ exitcode' = <<exit_status(result_list)>>
    /\ exit_by' = "check_exitcodes"
    /\ pc' = "exit"
    /\ UNCHANGED <<options, cookies, headers, requests, request_output, idx,
                   result_list>>

\* The whole loop of check_disks_health over a payload, from an empty list.
RECURSIVE disks_health_run(_, _, _)
disks_health_run(payload, warning, critical) ==
    IF payload = <<>> THEN <<>>
    ELSE disks_health_item(
             disks_health_run(SubSeq(payload, 1, Len(payload) - 1), warning, critical),
             payload[Len(payload)], warning, critical)

\* The whole loop of check_services over a payload, from an empty list.
RECURSIVE services_run(_)
services_run(payload) ==
    IF payload = <<>> THEN <<>>
    ELSE services_item(services_run(SubSeq(payload, 1, Len(payload) - 1)),
                       payload[Len(payload)])

\* What main hands to the evaluators besides the payload: the subcommand,
\* the thresholds, the filters and the ceph limits.
Configuration(o) ==
    [subcommand |-> o.subcommand,
     threshold_warning |-> o.threshold_warning,
     threshold_critical |-> o.threshold_critical,
     include_disks |-> o.include_disks,
     ignore_disks |-> o.ignore_disks,
     ceph_io_warning |-> o.ceph_io_warning,
     ceph_byte_warning |-> o.ceph_byte_warning]

\* The result of a check that ends in output().
Direct(state, line) ==
    [stdout |-> {[line EXCEPT !.prefix = state]}, exitcode |-> StateValue(state)]

\* The result of a check that returns to main: check_exitcodes on its list.
ViaExitcodes(list) ==
    [stdout |-> { printed(list)[k] : k \in 1..Len(printed(list)) },
     exitcode |-> exit_status(list)]

\* main, lines 151-155, as a function: the set of lines printed and the exit
\* status for a configuration and a decoded payload.
Evaluation(c, payload) ==
    LET warning == c.threshold_warning[1]
        critical == c.threshold_critical[1]
    IN
    CASE c.subcommand = "cpu" ->
           LET usage == cpu_usage(payload.cpu)
               state == usage_state(usage, warning, critical)
           IN  IF state # ""
               THEN Direct(state, Line("", "CPU usage is", "cpu", "", usage))
               ELSE ViaExitcodes(<<>>)
      [] c.subcommand \in {"memory", "swap"} ->
           LET percent == memory_used_percent(payload.used, payload.total)
               state == usage_state(percent, warning, critical)
           IN  IF state # ""
               THEN Direct(state, Line("", "usage is", c.subcommand, "", percent))
               ELSE ViaExitcodes(<<>>)
      [] c.subcommand = "pveversion" ->
           Direct("OK", Line("", payload.pveversion[1], payload.pveversion[2], "", 0))
      [] c.subcommand = "ceph" ->
           IF payload.status # "HEALTH_OK"
           THEN Direct("WARNING", Message("CEPH cluster is unhealthy!"))
           ELSE Direct("OK", Message("CEPH cluster is healthy."))
      [] c.subcommand = "cluster" ->
           LET offline == offline_node_list(payload.nodes)
           IN  IF payload.quorate = None
               THEN Direct("WARNING", Message("There is no cluster configuration!"))
               ELSE IF payload.quorate[1] = 1
               THEN IF Len(offline) > 0
                    THEN Direct("WARNING",
                                Line("", "cluster are working, but there is offline nodes",
                                     payload.name, offline, 0))
                    ELSE Direct("OK", Line("", "cluster is working well.",
                                           payload.name, <<>>, 0))
               ELSE Direct("CRITICAL", Line("", "There is no quorum in cluster!",
                                            payload.name, <<>>, 0))
      [] c.subcommand = "ceph_io" -> ViaExitcodes(ceph_io_findings(payload, c))
      [] c.subcommand = "disks_health" ->
           ViaExitcodes(disks_health_run(payload, warning, critical))
      [] c.subcommand = "services" -> ViaExitcodes(services_run(payload))
      [] c.subcommand = "storage" -> ViaExitcodes(storage_run(payload, c))

Next ==
    \/ parse_args
    \/ get_ticket
    \/ set_token
    \/ main
    \/ check_cpu
    \/ check_memory
    \/ check_pveversion
    \/ check_ceph
    \/ check_cluster
    \/ check_ceph_io
    \/ check_disks_health
    \/ check_services
    \/ check_storage
    \/ check_exitcodes

Spec == Init /\ [][Next]_vars

TypeOK ==
    /\ pc \in {"parse_args", "__init__", "main", "check", "check_exitcodes", "exit"}
    /\ (pc = "exit") = (exitcode # <<>>)


(***************************************************************************)
(* Properties.                                                             *)
(***************************************************************************)
Elements(list) == { list[k] : k \in 1..Len(list) }

\* The run went through check_exitcodes and has exited.
Aggregated == pc = "exit" /\ exit_by = "check_exitcodes"

TopSeverity(list) ==
    IF \E x \in Elements(list) : x.prefix = "CRITICAL" THEN "CRITICAL"
    ELSE IF \E x \in Elements(list) : x.prefix = "WARNING" THEN "WARNING"
    ELSE "OK"

\* C1: the lines check_exitcodes prints are exactly the findings of the
\* highest severity present in the list it was handed; no line of a lower
\* severity is printed next to a higher one.
C1_OnlyWinningSeverityPrinted ==
    Aggregated =>
        Elements(stdout) =
            { x \in Elements(result_list) : x.prefix = TopSeverity(result_list) }

DiskAcceptable(disk) == disk.health \in {"OK", "PASSED", "UNKNOWN"}

DiskIsCritical(disk) ==
    /\ DiskAcceptable(disk)
    /\ disk.wearout # <<>>
    /\ disk.wearout[1] < Critical

DiskIsWarning(disk) ==
    \/ ~DiskAcceptable(disk)
    \/ /\ disk.wearout # <<>>
       /\ Critical <= disk.wearout[1]
       /\ disk.wearout[1] <= Warning

DiskReported(disk, severity) ==
    \E x \in Elements(stdout) : x.prefix = severity /\ x.subject = disk.devpath

DisksAggregated == Aggregated /\ options.subcommand = "disks_health"

\* C2: in a disks_health run over a disk list without a CRITICAL disk, every
\* unhealthy disk (health not OK/PASSED/UNKNOWN, or integer wearout within
\* [critical, warning]) has its WARNING line printed and the run exits 1; a
\* list of healthy disks only prints the single line 'OK - All disks are
\* healthy.' and exits 0.
C2_EveryUnhealthyDiskReported ==
    (DisksAggregated /\ \A d \in Elements(request_output) : ~DiskIsCritical(d)) =>
        /\ \A d \in Elements(request_output) :
               DiskIsWarning(d) => (DiskReported(d, "WARNING") /\ exitcode = <<1>>)
        /\ (request_output # <<>>
            /\ \A d \in Elements(request_output) : ~DiskIsWarning(d)) =>
               /\ stdout = << Line("OK", "All disks are healthy.", "", "", 0) >>
               /\ exitcode = <<0>>

\* C3: in a disks_health run, a disk of acceptable health whose integer
\* wearout is strictly below the critical threshold has its CRITICAL line
\* printed and the run exits 2, wherever the disk stands in the list and
\* whatever the other disks are.
C3_CriticalDiskWins ==
    DisksAggregated =>
        \A d \in Elements(request_output) :
            DiskIsCritical(d) => (DiskReported(d, "CRITICAL") /\ exitcode = <<2>>)

ListBuilding == {"ceph_io", "disks_health", "services", "storage"}

\* The grades the evaluator rules give the items of the payload.
ItemGrades ==
    CASE options.subcommand = "ceph_io" ->
            { x.prefix : x \in Elements(ceph_io_findings(request_output, options)) }
      [] options.subcommand = "disks_health" ->
            { disk_state(d, Warning, Critical) : d \in Elements(request_output) }
      [] options.subcommand = "services" ->
            { service_state(e) : e \in Elements(request_output) }
      [] options.subcommand = "storage" ->
            { x.prefix : x \in UNION { Elements(storage_item(<<>>, st, options)) :
                                       st \in Elements(request_output) } }

WorstGrade ==
    IF "CRITICAL" \in ItemGrades THEN 2
    ELSE IF "WARNING" \in ItemGrades THEN 1
    ELSE 0

\* C4: for ceph_io, disks_health, services and storage the exit code is the
\* worst severity among the per-item grades of the payload (2 if any item is
\* CRITICAL, else 1 if any is WARNING, else 0), and it is never 3 once the
\* payload has been fetched.
C4_ExitCodeIsWorstGrade ==
    (options.subcommand \in ListBuilding /\ pc = "exit"
     /\ requests # <<>> /\ requests[Len(requests)].method = "get"
     /\ requests[Len(requests)].outcome = "ok") =>
        exitcode = <<WorstGrade>>


Ascending == {"cpu", "memory", "storage", "swap"}

\* A configuration the specification rejects: a threshold is missing, or
\* the two thresholds are not in the strict order of the subcommand.
BadThresholds(o) ==
    /\ o.subcommand \in Ascending \cup {"disks_health"}
    /\ \/ o.threshold_warning = None
       \/ o.threshold_critical = None
       \/ /\ o.subcommand \in Ascending
          /\ o.threshold_warning[1] >= o.threshold_critical[1]
       \/ /\ o.subcommand = "disks_health"
          /\ o.threshold_critical[1] >= o.threshold_warning[1]

\* C5: the configuration is validated before any request: a run whose
\* thresholds are missing or not in strict order (cpu, memory, storage, swap:
\* warning < critical; disks_health: critical < warning) issues neither the
\* ticket POST nor the data GET and ends in parser.error; every run that
\* gets past parse_args has its thresholds in the required strict order.
C5_ValidatedBeforeAnyRequest ==
    /\ BadThresholds(options) =>
          /\ requests = <<>>
          /\ pc \in {"parse_args", "exit"}
          /\ pc = "exit" => (exit_by = "parser.error" /\ stdout = <<>>)
    /\ exit_by = "parser.error" => BadThresholds(options)

C5_RejectedEqualThresholds ==
    /\ pc = "exit" /\ exit_by = "parser.error"
    /\ options.subcommand \in {"storage", "disks_health"}
    /\ options.threshold_warning # None
    /\ options.threshold_warning = options.threshold_critical
    /\ options.api_password
    /\ requests = <<>>

\* C6: every failure of the ticket POST or of the data GET ends the run
\* with exactly one printed line 'UNKNOWN - ...' and exit code 3, and no
\* further request is issued.
C6_EveryFailureIsUnknown ==
    \A k \in 1..Len(requests) :
        requests[k].outcome # "ok" =>
            /\ k = Len(requests)
            /\ pc = "exit"
            /\ exitcode = <<3>>
            /\ exit_by = "output"
            /\ Len(stdout) = 1
            /\ stdout[1].prefix = "UNKNOWN"

\* The payload of the data GET has been fetched.
Fetched ==
    /\ requests # <<>>
    /\ requests[Len(requests)].method = "get"
    /\ requests[Len(requests)].outcome = "ok"

\* C7: for cpu, memory and swap, once the payload is fetched the run prints
\* exactly one line and exits directly, with 2 iff the reported percentage
\* is >= critical, 1 iff warning <= percentage < critical, 0 iff
\* percentage < warning; check_exitcodes is never reached.
C7_ThreeWaySplit ==
    (options.subcommand \in {"cpu", "memory", "swap"} /\ Fetched) =>
        /\ pc \in {"check", "exit"}
        /\ pc = "exit" =>
              /\ exit_by = "output"
              /\ Len(stdout) = 1
              /\ LET percent == stdout[1].value IN
                 /\ (exitcode = <<2>>) = (percent >= Critical * 100)
                 /\ (exitcode = <<1>>) = (Warning * 100 <= percent
                                          /\ percent < Critical * 100)
                 /\ (exitcode = <<0>>) = (percent < Warning * 100)
                 /\ stdout[1].prefix =
                        (IF percent >= Critical * 100 THEN "CRITICAL"
                         ELSE IF percent >= Warning * 100 THEN "WARNING" ELSE "OK")
                 /\ percent =
                        (IF options.subcommand = "cpu"
                         THEN cpu_usage(request_output.cpu)
                         ELSE memory_used_percent(request_output.used,
                                                  request_output.total))

C7_PercentEqualsCritical ==
    /\ options.subcommand = "cpu" /\ Fetched /\ pc = "exit"
    /\ stdout # <<>>
    /\ stdout[1].value = Critical * 100
    /\ request_output.cpu = 80000
    /\ exitcode = <<2>>


StorageAggregated == Aggregated /\ options.subcommand = "storage"

\* The entries of the payload the active filter lets through and that are
\* enabled, in payload order.
PassesFilter(st) ==
    IF options.include_disks # {} THEN st.storage \in options.include_disks
    ELSE st.storage \notin options.ignore_disks

PassesAndEnabled(st) == PassesFilter(st) /\ st.enabled = 1

\* percent >= threshold for percent = used/total*100 (used*100 if total = 0).
ExactAtLeast(st, threshold) ==
    IF st.usage[2] = 0 THEN st.usage[1] * 100 >= threshold
    ELSE st.usage[1] * 100 >= threshold * st.usage[2]

GradeExact(st) ==
    IF st.active # 1 THEN "WARNING"
    ELSE IF ExactAtLeast(st, Critical) THEN "CRITICAL"
    ELSE IF ExactAtLeast(st, Warning) THEN "WARNING"
    ELSE "OK"

\* percent in hundredths: the float used/total*100 rounded to two decimals
\* by round().
RoundedPercentOf ==
    [usage \in StorageUsage |->
        IF usage[2] = 0 THEN usage[1] * 10000
        ELSE round2(Product(QuotientInt(usage[1], usage[2]), 100),
                    usage[1] * 100, usage[2])]

RoundedPercent(st) == RoundedPercentOf[st.usage]

GradeRounded(st) ==
    IF st.active # 1 THEN "WARNING"
    ELSE IF RoundedPercent(st) >= Critical * 100 THEN "CRITICAL"
    ELSE IF RoundedPercent(st) >= Warning * 100 THEN "WARNING"
    ELSE "OK"

\* The findings of the list: severity and subject, in order.
Graded(list) ==
    [k \in 1..Len(list) |-> <<list[k].prefix, list[k].subject>>]

\* C8 as stated: every enabled entry that passes the filter gives exactly one
\* finding, a disabled one none; a not active entry is WARNING, an active one
\* is graded by percent = used/total*100 (used*100 when total = 0): CRITICAL
\* if percent >= critical, WARNING if warning <= percent < critical, else OK;
\* a single active storage with percent = critical makes the run exit 2.
C8_PerItemRuleOnExactPercent ==
    StorageAggregated =>
        LET sel == SelectSeq(request_output, PassesAndEnabled) IN
        /\ Graded(result_list) =
               [k \in 1..Len(sel) |-> <<GradeExact(sel[k]), sel[k].storage>>]
        /\ (Len(sel) = 1 /\ sel[1].active = 1 /\ sel[1].usage[2] # 0
            /\ sel[1].usage[1] * 100 = Critical * sel[1].usage[2]) =>
               exitcode = <<2>>

\* C8 amended: the same rule with percent = the floating point value of
\* used/total*100 rounded to two decimals by round() (used*100 when
\* total = 0), as the code computes and prints it.
C8_PerItemRuleOnRoundedPercent ==
    StorageAggregated =>
        LET sel == SelectSeq(request_output, PassesAndEnabled) IN
        /\ Graded(result_list) =
               [k \in 1..Len(sel) |-> <<GradeRounded(sel[k]), sel[k].storage>>]
        /\ (Len(sel) = 1 /\ sel[1].active = 1
            /\ RoundedPercent(sel[1]) = Critical * 100) =>
               exitcode = <<2>>

C8_RoundedUpToCritical ==
    /\ StorageAggregated
    /\ Len(request_output) = 1
    /\ PassesAndEnabled(request_output[1])
    /\ request_output[1].active = 1
    /\ request_output[1].usage = <<79996, 100000>>
    /\ Len(result_list) = 1
    /\ result_list[1].value = Critical * 100
    /\ exitcode = <<2>>

\* C9: in the storage check, with a non-empty include list an entry is
\* evaluated iff its name is in the include list, and the findings, the
\* printed lines and the exit code are those of the same run under any other
\* ignore list; with an empty include list an entry is evaluated iff its
\* name is not in the ignore list.
C9_IncludeOverridesIgnore ==
    StorageAggregated =>
        /\ [k \in 1..Len(result_list) |-> result_list[k].subject] =
               LET sel == SelectSeq(request_output, PassesAndEnabled)
               IN  [k \in 1..Len(sel) |-> sel[k].storage]
        /\ options.include_disks # {} =>
               \A other \in SUBSET Names :
                   LET list == storage_run(request_output,
                                   [options EXCEPT !.ignore_disks = other])
                   IN  /\ result_list = list
                       /\ stdout = printed(list)
                       /\ exitcode = <<exit_status(list)>>

C9_NameInBothLists ==
    /\ StorageAggregated
    /\ \E k \in 1..Len(request_output) :
           /\ request_output[k].storage \in options.include_disks
           /\ request_output[k].storage \in options.ignore_disks
           /\ request_output[k].enabled = 1
           /\ \E x \in Elements(stdout) : x.subject = request_output[k].storage

ServicesAggregated == Aggregated /\ options.subcommand = "services"

FailsAnd(e) ==
    e.state # "running" /\ e.active_state # "active" /\ e.unit_state # "not-found"

FailsOr(e) ==
    (e.state # "running" \/ e.active_state # "active") /\ e.unit_state # "not-found"

WarnedServices ==
    { <<x.subject, x.detail>> : x \in { y \in Elements(stdout) : y.prefix = "WARNING" } }

\* C10 as stated: a service is graded WARNING exactly when it is not running
\* AND not active AND its unit-state is not "not-found"; every other service
\* only counts for the OK baseline and never makes the run exit 1.
C10_WarningIffNotRunningAndNotActive ==
    ServicesAggregated =>
        /\ WarnedServices =
               { <<e.name, e.state>> : e \in { f \in Elements(request_output) : FailsAnd(f) } }
        /\ (exitcode = <<1>>) = (\E e \in Elements(request_output) : FailsAnd(e))

\* C10 amended: a service is graded WARNING exactly when it is not running
\* OR not active, and its unit-state is not "not-found"; every other service
\* only counts for the OK baseline and never makes the run exit 1.
C10_WarningIffNotRunningOrNotActive ==
    ServicesAggregated =>
        /\ WarnedServices =
               { <<e.name, e.state>> : e \in { f \in Elements(request_output) : FailsOr(f) } }
        /\ (exitcode = <<1>>) = (\E e \in Elements(request_output) : FailsOr(e))
        /\ (exitcode = <<0>>) = (\A e \in Elements(request_output) : ~FailsOr(e))

C10_RunningButNotActive ==
    /\ ServicesAggregated
    /\ Len(request_output) = 1
    /\ request_output[1].state = "running"
    /\ request_output[1].active_state = "inactive"
    /\ request_output[1].unit_state # "not-found"
    /\ exitcode = <<1>>


ClusterFetched == options.subcommand = "cluster" /\ Fetched

\* The names of the nodes of the payload whose online flag is not 1.
OfflineNames ==
    { n.name : n \in { m \in Elements(request_output.nodes) : m.online # 1 } }

\* C11: a cluster run prints exactly one line and exits directly: WARNING
\* (no cluster configuration), exit 1, when quorate is null; CRITICAL (no
\* quorum), exit 2, when quorate is 0; with quorate 1, WARNING, exit 1,
\* listing the names of all nodes whose online flag is not 1 if there is
\* one, and OK, exit 0, iff every node is online.
C11_ClusterVerdict ==
    ClusterFetched =>
        /\ pc \in {"check", "exit"}
        /\ pc = "exit" =>
              /\ exit_by = "output"
              /\ Len(stdout) = 1
              /\ LET quorate == request_output.quorate
                     line == stdout[1]
                 IN  /\ quorate = None =>
                           /\ exitcode = <<1>> /\ line.prefix = "WARNING"
                           /\ line.msg = "There is no cluster configuration!"
                     /\ quorate = <<0>> =>
                           /\ exitcode = <<2>> /\ line.prefix = "CRITICAL"
                           /\ line.msg = "There is no quorum in cluster!"
                     /\ (quorate = <<1>> /\ OfflineNames # {}) =>
                           /\ exitcode = <<1>> /\ line.prefix = "WARNING"
                           /\ Elements(line.detail) = OfflineNames
                           /\ Len(line.detail) = Cardinality(OfflineNames)
                     /\ (quorate = <<1>>) =>
                           ((exitcode = <<0>>) = (OfflineNames = {}))
                     /\ (quorate = <<1>> /\ OfflineNames = {}) =>
                           line.prefix = "OK"

C11_TwoNodesOffline ==
    /\ ClusterFetched /\ pc = "exit"
    /\ request_output.quorate = <<1>>
    /\ Cardinality(OfflineNames) = 2
    /\ Len(stdout) = 1
    /\ Len(stdout[1].detail) = 2
    /\ exitcode = <<1>>


Posts == { k \in 1..Len(requests) : requests[k].method = "post" }

Gets == { k \in 1..Len(requests) : requests[k].method = "get" }

\* __init__ has returned: the run is in main or beyond.
Constructed ==
    \/ pc \in {"main", "check", "check_exitcodes"}
    \/ pc = "exit" /\ exit_by \in {"output", "check_exitcodes"} /\ Gets # {}

\* C12: in password mode exactly one POST to the ticket endpoint is issued,
\* before the data GET, and the GET carries the ticket that POST returned as
\* its cookie; in token mode no POST is issued and the data GET carries the
\* Authorization header; a run issues at most one data GET, and none when
\* the ticket POST failed.
C12_RequestSequence ==
    /\ Cardinality(Gets) <= 1
    /\ Cardinality(Posts) <= 1
    /\ \A p \in Posts :
          /\ options.api_password
          /\ requests[p].url = "access/ticket"
          /\ requests[p].outcome # "ok" => Gets = {}
    /\ \A g \in Gets :
          /\ requests[g].url = get_url(options.subcommand)
          /\ options.api_password =>
                \E p \in Posts :
                    /\ p < g
                    /\ requests[p].outcome = "ok"
                    /\ requests[p].ticket # <<>>
                    /\ requests[g].cookie = requests[p].ticket
          /\ (~options.api_password /\ options.api_token) =>
                /\ requests[g].authorization
                /\ requests[g].cookie = <<>>
    /\ (options.api_password /\ Constructed) => Cardinality(Posts) = 1
    /\ ~options.api_password => Posts = {}

C12_GetCarriesTicket ==
    /\ options.api_password
    /\ Len(requests) = 2
    /\ requests[1].method = "post" /\ requests[1].ticket = <<"PVE:t2">>
    /\ requests[2].method = "get" /\ requests[2].cookie = <<"PVE:t2">>
    /\ requests[2].outcome = "ok"
    /\ pc = "exit" /\ exitcode = <<0>>


\* C13: once the payload is fetched, the set of lines a run has printed when
\* it exits and its exit status are those Evaluation gives for the
\* configuration (subcommand, thresholds, filters, ceph limits) and the
\* decoded payload: whatever the authentication mode, the ticket and the
\* order in which set() hands out the lines, two runs on the same payload
\* and configuration print the same set of findings and exit alike.
C13_ResultIsFunctionOfPayloadAndConfiguration ==
    (Fetched /\ pc = "exit") =>
        LET evaluation == Evaluation(Configuration(options), request_output)
        IN  /\ Elements(stdout) = evaluation.stdout
            /\ exitcode = <<evaluation.exitcode>>

\* Two failing services printed in the reverse of their order in the payload.
C13_PrintedInAnotherOrder ==
    /\ options.subcommand = "services"
    /\ Fetched /\ Aggregated
    /\ Len(request_output) = 2
    /\ Len(stdout) = 2
    /\ stdout[1].subject = request_output[2].name
    /\ stdout[2].subject = request_output[1].name
    /\ stdout[1] # stdout[2]
    /\ exitcode = <<1>>


WarningLines(list) == { x \in Elements(list) : x.prefix = "WARNING" }

OkLines(list) == { x \in Elements(list) : x.prefix = "OK" }

\* The services of the payload the code grades WARNING.
FailingServices == { e \in Elements(request_output) : FailsOr(e) }

\* No OK line together with a WARNING line in the finding list.
ServicesListUnmixed ==
    options.subcommand = "services" =>
        (WarningLines(result_list) = {} \/ OkLines(result_list) = {})

\* The output of a finished services run.
ServicesFinalOutput ==
    ServicesAggregated =>
        /\ FailingServices # {} =>
              /\ Elements(stdout) = { ServiceLine(e, "WARNING") : e \in FailingServices }
              /\ Len(stdout) = Cardinality(Elements(stdout))
              /\ (\A e, f \in FailingServices : e.name = f.name => e = f) =>
                    Len(stdout) = Cardinality({ e.name : e \in FailingServices })
              /\ exitcode = <<1>>
        /\ (request_output # <<>> /\ FailingServices = {}) =>
              /\ stdout = << Line("OK", "All services are running.", "", "", 0) >>
              /\ exitcode = <<0>>

\* C14: in a services run the finding list never holds an OK line together
\* with a WARNING line, and a step never removes a WARNING line from it;
\* the finished run prints one WARNING line per distinct failing service and
\* no OK line, exiting 1, when a service fails, and exactly the single line
\* "OK - All services are running.", exiting 0, when the payload is
\* non-empty and no service fails.
C14_ServicesAccumulation ==
    /\ [](ServicesListUnmixed /\ ServicesFinalOutput)
    /\ [][options.subcommand = "services" =>
             WarningLines(result_list) \subseteq WarningLines(result_list')]_vars

\* A healthy service followed by a failing one: the OK line of the first
\* has left the list and only the WARNING line is printed.
C14_OkLineGaveWay ==
    /\ ServicesAggregated
    /\ Len(request_output) = 2
    /\ ~FailsOr(request_output[1])
    /\ FailsOr(request_output[2])
    /\ stdout = << ServiceLine(request_output[2], "WARNING") >>
    /\ exitcode = <<1>>

====
